---------------------------- MODULE Spec2Model ----------------------------
(***************************************************************************)
(* A model of thimble's Permutation (src/src/Permutation.cpp) and of the   *)
(* hash-free fuzzy vault decoder FuzzyVaultBrake                           *)
(* (src/src/FuzzyVaultBrake.cpp).                                          *)
(*                                                                         *)
(* SpecPerm  : a heap of Permutation objects and the public operations on  *)
(*             them.                                                       *)
(* SpecVault : one FuzzyVaultBrake object and its decode / open / getf0.   *)
(* SpecTwin  : two runs of decode that differ in the hash argument only.   *)
(***************************************************************************)
EXTENDS Integers, Sequences, FiniteSets, TLC

VARIABLES
    perm,       \* Permutation objects: name -> [n, data], data : 0..n-1 -> int
    last,       \* the last Permutation operation that ran, and how it ended
    halted      \* TRUE once exit(EXIT_FAILURE) was called in the Permutation program

permVars == <<perm, last, halted>>

(***************************************************************************)
(* Bounds of the Permutation model.                                        *)
(***************************************************************************)
MaxDim == 3

\* The Permutation objects of the program.
Objs == {"A", "B"}

\* Dimensions a caller may ask for: one negative, and 0..MaxDim.
DimArgs == -1 .. MaxDim

\* Index arguments a caller may pass to exchange: in and out of every range.
IdxArgs == -1 .. MaxDim

\* What freshly malloc'ed ints may hold: one value no permutation holds,
\* one that every non-empty permutation holds.
Garbage == {-1, 0}

\* The contents malloc may hand to prepareDim(n) of an object of dimension
\* old: a block filled with either value, or nothing when it does not allocate.
GarbageOf(old, n) ==
    IF old = n THEN {<<>>} ELSE {[x \in 0 .. n - 1 |-> v] : v \in Garbage}

(***************************************************************************)
(* Permutation.cpp, value level: an object is [n |-> int, data |-> array]. *)
(***************************************************************************)

\* Permutation::prepareDim, g is what the new block holds.
prepareDim(P, n, g) ==
    IF P.n # n THEN [n |-> n, data |-> g] ELSE P

\* Permutation::setDimension for n >= 0.
setDimension(P, n, g) ==
    LET Q == prepareDim(P, n, g)
    IN  [Q EXCEPT !.data = [x \in 0 .. n - 1 |-> x]]

\* Permutation::Permutation(int n), n >= 0: empty, then setDimension.
Permutation(n) ==
    setDimension([n |-> 0, data |-> <<>>], n, [x \in 0 .. n - 1 |-> -1])

\* The guard of Permutation::eval; eval throws when it fails.
evalInRange(P, x) == ~ (x < 0 \/ x >= P.n)

\* Permutation::eval on an argument in range.
eval(P, x) == P.data[x]

\* memcpy( this->data , P.data , len * sizeof(int) )
memcpy(dst, src, len) ==
    [x \in DOMAIN dst |-> IF x < len THEN src[x] ELSE dst[x]]

\* A slip in the length of operator='s memcpy: the last int is not copied.
assignShort(T, P, g) ==
    LET Q == prepareDim(T, P.n, g)
    IN  [n |-> P.n, data |-> memcpy(Q.data, P.data, P.n - 1)]

\* Permutation::operator= for this != &P.
assign(T, P, g) ==
    LET Q == prepareDim(T, P.n, g)
    IN  [n |-> P.n, data |-> memcpy(Q.data, P.data, P.n)]

\* The classic swap slip: the second write reads the cell the first overwrote.
exchangeNoTemp(P, x0, x1) ==
    IF ~ evalInRange(P, x0) \/ ~ evalInRange(P, x1)
    THEN [res |-> "RangeError", P |-> P]
    ELSE LET d1 == [P.data EXCEPT ![x0] = P.data[x1]]
             d2 == [d1 EXCEPT ![x1] = d1[x0]]
         IN  [res |-> "ok", P |-> [P EXCEPT !.data = d2]]

\* Permutation::exchange: both evals (either may throw), then both writes.
exchange(P, x0, x1) ==
    IF ~ evalInRange(P, x0) THEN [res |-> "RangeError", P |-> P]
    ELSE IF ~ evalInRange(P, x1) THEN [res |-> "RangeError", P |-> P]
    ELSE LET y0 == eval(P, x0)
             y1 == eval(P, x1)
             d1 == [P.data EXCEPT ![x0] = y1]
             d2 == [d1 EXCEPT ![x1] = y0]
         IN  [res |-> "ok", P |-> [P EXCEPT !.data = d2]]

\* One iteration of the loop of Permutation::random: j is the draw
\* rand32() % n, then exchange(i, j).
randomIter(P, i, j) == exchange(P, i, j)

\* The loop of Permutation::mul from index x on: R.data[x] = P.eval(Q.eval(x)).
RECURSIVE mulLoop(_, _, _, _)
mulLoop(R, P, Q, x) ==
    IF x >= P.n THEN [res |-> "ok", P |-> R]
    ELSE IF ~ evalInRange(Q, x) THEN [res |-> "RangeError", P |-> R]
    ELSE IF ~ evalInRange(P, eval(Q, x)) THEN [res |-> "RangeError", P |-> R]
    ELSE mulLoop([R EXCEPT !.data[x] = eval(P, eval(Q, x))], P, Q, x + 1)

\* Permutation::mul for an R that is neither P nor Q.
mulDistinct(R, P, Q, g) ==
    IF P.n # Q.n THEN [res |-> "exit", P |-> R]
    ELSE mulLoop(prepareDim(R, P.n, g), P, Q, 0)

\* The loop of Permutation::inv from index x on: R.data[P.eval(x)] = x.
\* A write outside R.data is undefined behaviour; it ends the loop as "ub".
RECURSIVE invLoop(_, _, _)
invLoop(R, P, x) ==
    IF x >= P.n THEN [res |-> "ok", P |-> R]
    ELSE IF ~ evalInRange(P, x) THEN [res |-> "RangeError", P |-> R]
    ELSE IF eval(P, x) \notin DOMAIN R.data THEN [res |-> "ub", P |-> R]
    ELSE invLoop([R EXCEPT !.data[eval(P, x)] = x], P, x + 1)

\* Permutation::inv for an R that is not P.
invDistinct(R, P, g) == invLoop(prepareDim(R, P.n, g), P, 0)


(***************************************************************************)
(* Permutation.cpp, heap level: h maps object names to objects, so that    *)
(* two references to the same object are two equal names.                  *)
(***************************************************************************)

\* swap that exchanges the data pointers and forgets the dimensions.
swapDataOnly(h, p, q) ==
    LET data == h[p].data
        h1   == [h EXCEPT ![p] = [n |-> h[p].n, data |-> h[q].data]]
    IN  [h1 EXCEPT ![q] = [n |-> h1[q].n, data |-> data]]

\* Permutation::swap: exchanges n and data of the two objects.
swap(h, p, q) ==
    LET n    == h[p].n
        data == h[p].data
        h1   == [h EXCEPT ![p] = [n |-> h[q].n, data |-> h[q].data]]
    IN  [h1 EXCEPT ![q] = [n |-> n, data |-> data]]

\* h with the local object tmp, and h without it again.
withLocal(h, tmp) == [o \in Objs \cup {"local"} |-> IF o = "local" THEN tmp ELSE h[o]]
dropLocal(h) == [o \in Objs |-> h[o]]

\* Permutation::operator=, with its guard this != &P.
assignTo(h, t, p, g) ==
    IF t # p THEN [h EXCEPT ![t] = assign(h[t], h[p], g)] ELSE h

\* mul that composes the wrong way round: R(x) = Q(P(x)).
mulSwapped(h, r, p, q, g) ==
    LET out == mulDistinct(Permutation(0), h[q], h[p], g)
    IN  IF out.res = "ok" THEN [res |-> "ok", h |-> [h EXCEPT ![r] = out.P]]
        ELSE [res |-> out.res, h |-> h]

\* Permutation::mul: through a local tR and swap when R is P or Q.
mul(h, r, p, q, g) ==
    IF r = p \/ r = q
    THEN LET out == mulDistinct(Permutation(0), h[p], h[q], g)
         IN  IF out.res = "ok"
             THEN [res |-> "ok", h |-> dropLocal(swap(withLocal(h, out.P), r, "local"))]
             ELSE [res |-> out.res, h |-> h]
    ELSE LET out == mulDistinct(h[r], h[p], h[q], g)
         IN  [res |-> out.res, h |-> [h EXCEPT ![r] = out.P]]

\* The loop of inv run on R itself: every read sees the writes before it.
RECURSIVE invInPlaceLoop(_, _)
invInPlaceLoop(R, x) ==
    IF x >= R.n THEN [res |-> "ok", P |-> R]
    ELSE IF eval(R, x) \notin DOMAIN R.data THEN [res |-> "ub", P |-> R]
    ELSE invInPlaceLoop([R EXCEPT !.data[eval(R, x)] = x], x + 1)

\* inv without the copy that protects the case &R == &P.
invNoCopy(h, r, p, g, gc) ==
    LET out == IF r = p THEN invInPlaceLoop(h[r], 0)
               ELSE invDistinct(h[r], h[p], g)
    IN  [res |-> out.res, h |-> [h EXCEPT ![r] = out.P]]

\* Permutation::inv: inverts a copy tP of P when R is P; gc is what the
\* copy's new block holds.
inv(h, r, p, g, gc) ==
    LET tP  == IF r = p THEN assign(Permutation(0), h[p], gc) ELSE h[p]
        out == invDistinct(h[r], tP, g)
    IN  [res |-> out.res, h |-> [h EXCEPT ![r] = out.P]]

(***************************************************************************)
(* The Permutation program: any caller, any order of calls.                *)
(***************************************************************************)
Called(op, r, p, q, x0, x1, res) ==
    [op |-> op, r |-> r, p |-> p, q |-> q, x0 |-> x0, x1 |-> x1, res |-> res]

InitPerm ==
    /\ perm \in [Objs -> {Permutation(n) : n \in 0 .. MaxDim}]
    /\ last = Called("new", "-", "-", "-", 0, 0, "ok")
    /\ halted = FALSE

\* No call is running and the program has not exited: a caller may call.
Idle == ~ halted /\ last.res # "running"

\* P.setDimension(n); a negative n ends the program.
SetDimension(o, n) ==
    /\ Idle
    /\ IF n < 0
       THEN /\ halted' = TRUE
            /\ perm' = perm
            /\ last' = Called("setDimension", o, "-", "-", n, 0, "exit")
       ELSE /\ \E g \in GarbageOf(perm[o].n, n) :
                  perm' = [perm EXCEPT ![o] = setDimension(perm[o], n, g)]
            /\ halted' = halted
            /\ last' = Called("setDimension", o, "-", "-", n, 0, "ok")

\* T = P.
Assign(t, p) ==
    /\ Idle
    /\ \E g \in GarbageOf(perm[t].n, perm[p].n) : perm' = assignTo(perm, t, p, g)
    /\ last' = Called("assign", t, p, "-", 0, 0, "ok")
    /\ halted' = halted

\* P.exchange(x0, x1); the exception of eval leaves the program running.
Exchange(o, x0, x1) ==
    /\ Idle
    /\ LET e == exchange(perm[o], x0, x1)
       IN  /\ perm' = [perm EXCEPT ![o] = e.P]
           /\ last' = Called("exchange", o, "-", "-", x0, x1, e.res)
    /\ halted' = halted

\* P.random(tryRandom) is called: the loop starts at i = 0 (kept in last.x0)
\* and is over at once when n = 0.
Random(o) ==
    /\ Idle
    /\ perm' = perm
    /\ last' = Called("random", o, "-", "-", 0, 0,
                      IF 0 < perm[o].n THEN "running" ELSE "ok")
    /\ halted' = halted

\* One iteration of the loop of random, with the draw j in [0, n).
RandomIter(j) ==
    /\ ~ halted
    /\ last.op = "random" /\ last.res = "running"
    /\ j \in 0 .. perm[last.r].n - 1
    /\ LET e == randomIter(perm[last.r], last.x0, j)
           i == last.x0 + 1
       IN  /\ perm' = [perm EXCEPT ![last.r] = e.P]
           /\ last' = [last EXCEPT !.x0 = i,
                          !.res = IF e.res # "ok" THEN e.res
                                  ELSE IF i < perm[last.r].n THEN "running" ELSE "ok"]
    /\ halted' = halted

\* Permutation::swap(P, Q).
Swap(p, q) ==
    /\ Idle
    /\ perm' = swap(perm, p, q)
    /\ last' = Called("swap", "-", p, q, 0, 0, "ok")
    /\ halted' = halted

\* Permutation::mul(R, P, Q); different dimensions end the program.
Mul(r, p, q) ==
    /\ Idle
    /\ \E g \in GarbageOf(IF r \in {p, q} THEN 0 ELSE perm[r].n, perm[p].n) :
          LET m == mul(perm, r, p, q, g)
          IN  /\ perm' = m.h
              /\ last' = Called("mul", r, p, q, 0, 0, m.res)
              /\ halted' = (m.res \in {"exit", "ub"})

\* Permutation::inv(R, P).
Inv(r, p) ==
    /\ Idle
    /\ \E g \in GarbageOf(perm[r].n, perm[p].n), gc \in GarbageOf(0, perm[p].n) :
          LET m == inv(perm, r, p, g, gc)
          IN  /\ perm' = m.h
              /\ last' = Called("inv", r, p, "-", 0, 0, m.res)
              /\ halted' = (m.res \in {"exit", "ub"})

\* P holds each of 0..n-1 exactly once.
IsBijection(P) ==
    /\ DOMAIN P.data = 0 .. P.n - 1
    /\ \A v \in 0 .. P.n - 1 : Cardinality({x \in 0 .. P.n - 1 : P.data[x] = v}) = 1


(***************************************************************************)
(* The finite field and the polynomials over it that FuzzyVaultBrake uses  *)
(* (thimble's SmallBinaryField and SmallBinaryFieldPolynomial): a binary   *)
(* field GF(2^FieldDegree), elements as bit patterns 0 .. 2^FieldDegree-1. *)
(***************************************************************************)
FieldDegree == 3

\* The defining polynomial X^3 + X + 1 as a bit pattern.
FieldGenerator == 11

FieldSize == 2 ^ FieldDegree

Field == 0 .. FieldSize - 1

\* Bitwise exclusive or: the field's addition (and subtraction).
RECURSIVE Xor(_, _)
Xor(a, b) ==
    IF a = 0 THEN b
    ELSE IF b = 0 THEN a
    ELSE ((a + b) % 2) + 2 * Xor(a \div 2, b \div 2)

\* a * X, reduced by the defining polynomial.
TimesX(a) == IF 2 * a >= FieldSize THEN Xor(2 * a, FieldGenerator) ELSE 2 * a

\* Shift-and-add multiplication in the field.
RECURSIVE FieldMulRec(_, _)
FieldMulRec(a, b) ==
    IF b = 0 THEN 0
    ELSE Xor(IF b % 2 = 1 THEN a ELSE 0, FieldMulRec(TimesX(a), b \div 2))

FieldMulTable == [a \in Field, b \in Field |-> FieldMulRec(a, b)]
FieldAddTable == [a \in Field, b \in Field |-> Xor(a, b)]

FieldMul(a, b) == FieldMulTable[a, b]
FieldAdd(a, b) == FieldAddTable[a, b]

FieldInvTable ==
    [a \in Field \ {0} |-> CHOOSE z \in Field \ {0} : FieldMulTable[a, z] = 1]

FieldInv(a) == FieldInvTable[a]

\* A polynomial is the sequence of its coefficients, constant term first,
\* with no leading zero coefficient; << >> is the zero polynomial.
RECURSIVE Normalize(_)
Normalize(c) ==
    IF Len(c) = 0 THEN c
    ELSE IF c[Len(c)] = 0 THEN Normalize(SubSeq(c, 1, Len(c) - 1))
    ELSE c

ZeroPolynomial == << >>

PolyDegree(f) == Len(f) - 1

\* SmallBinaryFieldPolynomial::eval, by Horner's rule from coefficient i down.
RECURSIVE PolyEvalFrom(_, _, _)
PolyEvalFrom(f, a, i) ==
    IF i > Len(f) THEN 0
    ELSE FieldAdd(f[i], FieldMul(a, PolyEvalFrom(f, a, i + 1)))

PolyEval(f, a) == PolyEvalFrom(f, a, 1)

\* c * (X + r), for a coefficient sequence c, one coefficient longer than c.
TimesLinear(c, r) ==
    [i \in 1 .. Len(c) + 1 |->
        FieldAdd(IF i > 1 THEN c[i - 1] ELSE 0,
                 IF i <= Len(c) THEN FieldMul(r, c[i]) ELSE 0)]

\* The product of (X + a[j]) over the j in 1..m other than i, and the
\* product of (a[i] + a[j]) over the same j.
RECURSIVE LagrangeNumerator(_, _, _)
LagrangeNumerator(a, i, m) ==
    IF m = 0 THEN <<1>>
    ELSE IF m = i THEN LagrangeNumerator(a, i, m - 1)
    ELSE TimesLinear(LagrangeNumerator(a, i, m - 1), a[m])

RECURSIVE LagrangeDenominator(_, _, _)
LagrangeDenominator(a, i, m) ==
    IF m = 0 THEN 1
    ELSE IF m = i THEN LagrangeDenominator(a, i, m - 1)
    ELSE FieldMul(LagrangeDenominator(a, i, m - 1), FieldAdd(a[i], a[m]))

\* The sum over i in 1..m of b[i] * L_i, coefficient by coefficient.
RECURSIVE LagrangeSum(_, _, _, _)
LagrangeSum(a, b, k, m) ==
    IF m = 0 THEN [i \in 1 .. k |-> 0]
    ELSE LET rest  == LagrangeSum(a, b, k, m - 1)
             num   == LagrangeNumerator(a, m, k)
             scale == FieldMul(b[m], FieldInv(LagrangeDenominator(a, m, k)))
         IN  [i \in 1 .. k |-> FieldAdd(rest[i], FieldMul(scale, num[i]))]

\* SmallBinaryFieldPolynomial::interpolate(a, b, k): the polynomial of degree
\* below k through (a[1], b[1]) .. (a[k], b[k]), the a[i] pairwise different.
Interpolate(a, b, k) == Normalize(LagrangeSum(a, b, k, k))


(***************************************************************************)
(* C++ integer conversions.  A uint32_t is the pair of its 16 bit halves,  *)
(* a uint64_t the four 16 bit limbs, most significant first.               *)
(***************************************************************************)
Half == 2 ^ 16

\* (uint32_t) i for an int i.
ToUint32(i) == <<(i \div Half) % Half, i % Half>>

\* (uint64_t) i for an int or a small counter i: the sign is extended.
ToUint64(i) ==
    LET q1 == i \div Half
        q2 == q1 \div Half
        q3 == q2 \div Half
    IN  <<q3 % Half, q2 % Half, q1 % Half, i % Half>>

\* u < v for two uint64_t, from limb j on.
RECURSIVE Uint64LessFrom(_, _, _)
Uint64LessFrom(u, v, j) ==
    IF j > 4 THEN FALSE
    ELSE IF u[j] # v[j] THEN u[j] < v[j]
    ELSE Uint64LessFrom(u, v, j + 1)

Uint64Less(u, v) == Uint64LessFrom(u, v, 1)

(***************************************************************************)
(* Bounds and inputs of the fuzzy vault model.                             *)
(***************************************************************************)
\* The longest unlocking set a caller passes.
MaxN == 3

\* The largest iteration budget a caller passes.
MaxIts == 5

\* The loop counter is followed up to here, one past every budget a caller
\* passes; only a budget converted to a huge uint64_t lets it get there.
ItCap == MaxIts + 1

\* The sampler's range: the platform's RAND_MAX, scaled down so that one
\* n a caller may pass lies above it.
RAND_MAX == MaxN

NArgs == -1 .. RAND_MAX + 1
KArgs == -1 .. MaxN + 1
MaxItsArgs == -1 .. MaxIts

\* The numbers of elements quantize may return to open: none, and up to
\* one more than the sampler's range.
TArgs == 0 .. RAND_MAX + 1

\* The hash argument: null, or one of two digests.
Hashes == {"null", "h1", "h2"}

\* Vault polynomials: one of degree 1 and one of degree 3.
VaultPolys == {<<1, 1>>, <<3, 0, 1, 1>>}

\* The contents a caller's output polynomial may have before the call.
CallerPolys == {ZeroPolynomial, <<6, 6, 6, 6, 6>>}

\* The abscissa of the j-th point (1 <= j <= MaxN) of a caller's buffers.
Abscissa(j) == j

\* The buffers x, y a caller passes to decode: MaxN points of the graph of
\* a vault polynomial.
UnlockingSets ==
    {[x |-> [j \in 1 .. MaxN |-> Abscissa(j)],
      y |-> [j \in 1 .. MaxN |-> PolyEval(V, Abscissa(j))]] : V \in VaultPolys}

VARIABLES
    pc,         \* "idle", "loop" (inside decode's for loop), "done", "exit"
    api,        \* the function the caller called: "none", "decode", "open", "getf0"
    err,        \* the error exit(EXIT_FAILURE) was called with, or "none"
    vault,      \* the fields of the vault as the running call reads them
    quantized,  \* open's array B after quantize: its t elements
    arg,        \* the arguments of the running decode: n, k, maxIts, hash, x, y,
                \* and whether decode was called at all
    it,         \* decode's loop counter
    result,     \* decode's unordered_map result: constant term -> count
    max,        \* decode's pair max: [first, second]
    f,          \* the output polynomial (a reference parameter)
    fIn,        \* what f held when the caller's call began
    assigned,   \* whether f.assign ran in the call
    unpacked,   \* whether unpackVaultPolynomial ran in the call
    ret,        \* the return values: decode, open ("none" until returned), getf0
    twin        \* a second run of decode on the same arguments and samples but
                \* another hash: its hash, pc, err, it, result, max, f, return value

vaultVars ==
    <<pc, api, err, vault, quantized, arg, it, result, max, f, fIn, assigned, unpacked, ret,
      twin>>

vars == <<perm, last, halted, pc, api, err, vault, quantized, arg, it, result, max, f, fIn,
          assigned, unpacked, ret, twin>>


(***************************************************************************)
(* FuzzyVaultBrake::decode.                                                *)
(***************************************************************************)

\* decode without the test k > n.
decodeCheckNoUpper(n, k) ==
    IF n > RAND_MAX THEN "ParameterError"
    ELSE IF n <= 0 \/ k <= 0 THEN "ParameterError"
    ELSE "none"

\* The two parameter checks at the head of decode; each ends in exit.
decodeCheck(n, k) ==
    IF n > RAND_MAX THEN "ParameterError"
    ELSE IF n <= 0 \/ k <= 0 \/ k > n THEN "ParameterError"
    ELSE "none"

\* The test of the for loop: uint64_t it against the int maxIts.
loopTest(i, maxIts) == Uint64Less(ToUint64(i), ToUint64(maxIts))

\* FuzzyVaultTools::fastChooseIndicesAtRandom(indices, n, k): the arrays of
\* k pairwise different indices in 0..n-1 it may fill in, tabulated for the
\* n and k that pass decode's checks.
SamplesTable ==
    [n \in 1 .. MaxN, k \in 1 .. MaxN |->
        {idx \in [1 .. k -> 0 .. n - 1] :
            \A i \in 1 .. k, j \in 1 .. k : i # j => idx[i] # idx[j]}]

Samples(n, k) ==
    IF n \in 1 .. MaxN /\ k \in 1 .. MaxN THEN SamplesTable[n, k] ELSE {}

\* The candidate of one iteration: a[i] = x[j], b[i] = y[j] for j =
\* indices[i], then interpolate(a, b, k).  Index j of the C arrays is
\* element j + 1 of the sequences.
candidate(x, y, k, idx) ==
    Interpolate([i \in 1 .. k |-> x[idx[i] + 1]],
                [i \in 1 .. k |-> y[idx[i] + 1]], k)

\* result.count(f0) == 0 ? result[f0] = 1 : result[f0]++
tally(res, f0) ==
    IF f0 \notin DOMAIN res
    THEN [v \in DOMAIN res \cup {f0} |-> IF v = f0 THEN 1 ELSE res[v]]
    ELSE [res EXCEPT ![f0] = @ + 1]

\* The update of the leader that writes max and forgets f.assign.
leaderNoAssign(m, g, done, f0, count, cand) ==
    IF m.second = -1 \/ (f0 # m.first /\ count > m.second)
    THEN [max |-> [first |-> f0, second |-> count], f |-> g, assigned |-> done]
    ELSE [max |-> m, f |-> g, assigned |-> done]

\* The update of the leader at the end of an iteration: max and f.
leader(m, g, done, f0, count, cand) ==
    IF m.second = -1 \/ (f0 # m.first /\ count > m.second)
    THEN [max |-> [first |-> f0, second |-> count], f |-> cand, assigned |-> TRUE]
    ELSE [max |-> m, f |-> g, assigned |-> done]

\* The loop body as the overridden decoder has it: a candidate counts only
\* when its hash is the hash decode was given (none is, here).
decodeStepHashed(a, s, idx) ==
    IF a.hash = "null"
    THEN LET cand == candidate(a.x, a.y, a.k, idx)
             f0   == PolyEval(cand, 0)
             res  == tally(s.result, f0)
             lead == leader(s.max, s.f, s.assigned, f0, res[f0], cand)
         IN  [result |-> res, max |-> lead.max, f |-> lead.f, assigned |-> lead.assigned]
    ELSE s

\* The body of decode's loop on the locals and the output s = [result, max,
\* f, assigned], a the arguments of the call (a.hash among them) and idx the
\* sampled indices.
decodeStep(a, s, idx) ==
    LET cand == candidate(a.x, a.y, a.k, idx)
        f0   == PolyEval(cand, 0)
        res  == tally(s.result, f0)
        lead == leader(s.max, s.f, s.assigned, f0, res[f0], cand)
    IN  [result |-> res, max |-> lead.max, f |-> lead.f, assigned |-> lead.assigned]

\* decode that returns its flag state, which is never set.
decodeReturnState == FALSE

\* What decode returns after the loop.
decodeReturn == TRUE

\* getf0 with the test of open's result inverted.
getf0Inverted(success, g) ==
    IF success THEN ToUint32(-1) ELSE ToUint32(PolyEval(g, 0))

\* FuzzyVaultBrake::getf0 after open returned success: -1 as a uint32_t, or
\* f.eval(0).
getf0(success, g) ==
    IF ~ success THEN ToUint32(-1) ELSE ToUint32(PolyEval(g, 0))

(***************************************************************************)
(* FuzzyVaultBrake::open.                                                  *)
(***************************************************************************)

\* The vault states open may find: the fields are written by the base
\* class (enrolment, encryption, the setters), and read by open.
VaultStates ==
    {v \in [enrolled : BOOLEAN, encrypted : BOOLEAN, slowDownFactor : {1, 2},
            k : 1 .. MaxN, D : 1 .. MaxIts, V : VaultPolys, hash : Hashes \ {"null"}] :
        v.encrypted => v.enrolled}

\* The reordering _reorder applies to a quantized element: a bijection of
\* the field.
Reorder(b) == (3 * b + 1) % FieldSize

\* What quantize may put in B for a view: t pairwise different elements.
Quantized(t) == [j \in 1 .. t |-> j]

\* open without the check of the slow-down factor.
openCheckNoSlowDown(v, t, nullOnZero) ==
    IF ~ v.enrolled THEN "NotEnrolled"
    ELSE IF v.encrypted THEN "StillEncrypted"
    ELSE IF t = 0 /\ nullOnZero THEN "AllocationError"
    ELSE "none"

\* The checks of open, in their order: isEnrolled(), isEncrypted(), the
\* allocation of x and y (malloc(0) may return NULL: nullOnZero), and
\* slowDownFactor; each ends in exit.
openCheck(v, t, nullOnZero) ==
    IF ~ v.enrolled THEN "NotEnrolled"
    ELSE IF v.encrypted THEN "StillEncrypted"
    ELSE IF t = 0 /\ nullOnZero THEN "AllocationError"
    ELSE IF v.slowDownFactor # 1 THEN "UnsupportedSlowDown"
    ELSE "none"


(***************************************************************************)
(* The fuzzy vault program: one call of decode, open or getf0 on a vault.  *)
(* The three are const and keep nothing from one call to the next, so a    *)
(* behaviour follows one call from its start to its return or exit.        *)
(***************************************************************************)
NoArg ==
    [called |-> FALSE, n |-> 0, k |-> 0, maxIts |-> 0, hash |-> "null",
     x |-> << >>, y |-> << >>]

NoVault ==
    [enrolled |-> FALSE, encrypted |-> FALSE, slowDownFactor |-> 1, k |-> 1,
     D |-> 1, V |-> ZeroPolynomial, hash |-> "h1"]

NoRet == [decode |-> "none", open |-> "none", getf0 |-> << >>]

Flag(b) == IF b THEN "true" ELSE "false"

\* No second run.
NoTwin ==
    [active |-> FALSE, hash |-> "null", pc |-> "idle", err |-> "none", it |-> 0,
     result |-> << >>, max |-> [first |-> 0, second |-> -1], f |-> ZeroPolynomial,
     assigned |-> FALSE, ret |-> "none"]

VaultAtRest ==
    /\ pc = "idle"
    /\ api = "none"
    /\ err = "none"
    /\ vault = NoVault
    /\ quantized = << >>
    /\ arg = NoArg
    /\ it = 0
    /\ result = << >>
    /\ max = [first |-> 0, second |-> -1]
    /\ f = ZeroPolynomial
    /\ fIn = ZeroPolynomial
    /\ assigned = FALSE
    /\ unpacked = FALSE
    /\ ret = NoRet
    /\ twin = NoTwin

\* Control enters decode with these arguments: the parameter checks, then
\* the initialisation of result and max in front of the loop.
EnterDecode(a) ==
    /\ arg' = a
    /\ err' = decodeCheck(a.n, a.k)
    /\ pc' = IF decodeCheck(a.n, a.k) = "none" THEN "loop" ELSE "exit"
    /\ it' = 0
    /\ result' = << >>
    /\ max' = [first |-> 0, second |-> -1]

\* The caller calls decode(f, x, y, n, k, hash, maxIts), f holding g.
DecodeCall(n, k, maxIts, h, u, g) ==
    /\ pc = "idle"
    /\ api' = "decode"
    /\ f' = g /\ fIn' = g
    /\ EnterDecode([called |-> TRUE, n |-> n, k |-> k, maxIts |-> maxIts,
                    hash |-> h, x |-> u.x, y |-> u.y])
    /\ UNCHANGED <<vault, quantized, assigned, unpacked, ret>>

\* One iteration of decode's loop, idx the sampled indices.
DecodeIter(idx) ==
    /\ pc = "loop"
    /\ loopTest(it, arg.maxIts)
    /\ it < ItCap
    /\ \E s \in {decodeStep(arg, [result |-> result, max |-> max, f |-> f,
                                  assigned |-> assigned], idx)} :
          /\ result' = s.result
          /\ max' = s.max
          /\ f' = s.f
          /\ assigned' = s.assigned
    /\ it' = it + 1
    /\ UNCHANGED <<pc, api, err, vault, quantized, arg, fIn, unpacked, ret>>

\* The loop is over: decode returns, then open returns decode's value,
\* then getf0 returns its value.
Return ==
    /\ pc = "loop"
    /\ ~ loopTest(it, arg.maxIts)
    /\ pc' = "done"
    /\ ret' = [decode |-> Flag(decodeReturn),
               open   |-> IF api \in {"open", "getf0"} THEN Flag(decodeReturn)
                          ELSE "none",
               getf0  |-> IF api = "getf0" THEN getf0(decodeReturn, f) ELSE << >>]
    /\ UNCHANGED <<api, err, vault, quantized, arg, it, result, max, f, fIn, assigned,
                   unpacked>>

\* The body of open(f, view) up to and into decode: the view quantizes to t
\* elements, the vault is in state v.
OpenBody(v, t, nullOnZero) ==
    /\ vault' = v
    /\ quantized' = Quantized(t)
    /\ IF openCheck(v, t, nullOnZero) # "none"
       THEN /\ pc' = "exit"
            /\ err' = openCheck(v, t, nullOnZero)
            /\ unpacked' = FALSE
            /\ UNCHANGED <<arg, it, result, max>>
       ELSE /\ unpacked' = TRUE
            /\ LET B == Quantized(t)
                   x == [j \in 1 .. t |-> Reorder(B[j])]
                   y == [j \in 1 .. t |-> PolyEval(v.V, x[j])]
               IN  EnterDecode([called |-> TRUE, n |-> t, k |-> v.k, maxIts |-> v.D,
                                hash |-> v.hash, x |-> x, y |-> y])

\* The caller calls open(f, view), f holding g.
OpenCall(v, t, nullOnZero, g) ==
    /\ pc = "idle"
    /\ api' = "open"
    /\ f' = g /\ fIn' = g
    /\ OpenBody(v, t, nullOnZero)
    /\ UNCHANGED <<assigned, ret>>

\* The caller calls getf0(view): a fresh f over the vault's field, then open.
Getf0Call(v, t, nullOnZero) ==
    /\ pc = "idle"
    /\ api' = "getf0"
    /\ f' = ZeroPolynomial /\ fIn' = ZeroPolynomial
    /\ OpenBody(v, t, nullOnZero)
    /\ UNCHANGED <<assigned, ret>>

\* The calls a caller may make, and the steps of the call that runs.
DecodeCalls ==
    /\ pc = "idle"
    /\ \E n \in NArgs, k \in KArgs, maxIts \in MaxItsArgs, h \in Hashes,
          u \in UnlockingSets, g \in CallerPolys : DecodeCall(n, k, maxIts, h, u, g)
    /\ UNCHANGED <<permVars, twin>>

OpenCalls ==
    /\ pc = "idle"
    /\ \E v \in VaultStates, t \in TArgs, z \in BOOLEAN, g \in CallerPolys :
          OpenCall(v, t, z, g)
    /\ UNCHANGED <<permVars, twin>>

Getf0Calls ==
    /\ pc = "idle"
    /\ \E v \in VaultStates, t \in TArgs, z \in BOOLEAN : Getf0Call(v, t, z)
    /\ UNCHANGED <<permVars, twin>>

DecodeIters ==
    /\ pc = "loop"
    /\ \E idx \in Samples(arg.n, arg.k) : DecodeIter(idx)
    /\ UNCHANGED <<permVars, twin>>

Returns == Return /\ UNCHANGED <<permVars, twin>>

NextVault ==
    \/ DecodeCalls
    \/ DecodeIters
    \/ Returns
    \/ OpenCalls
    \/ Getf0Calls

\* The fuzzy vault program, with no Permutation program beside it.
InitVault ==
    /\ perm = [o \in Objs |-> Permutation(0)]
    /\ last = Called("new", "-", "-", "-", 0, 0, "ok")
    /\ halted = FALSE
    /\ VaultAtRest

SpecVault == InitVault /\ [][NextVault]_vars

(***************************************************************************)
(* Two runs of decode side by side: the same f, x, y, n, k, maxIts and the *)
(* same sampled indices in every iteration, and two different hashes.  The *)
(* first run is the call above; the second is kept in twin.                *)
(***************************************************************************)

\* The arguments of the second run: those of the first, with its own hash.
twinArg(a, t) == [a EXCEPT !.hash = t.hash]

\* The second run enters decode(g, x, y, n, k, h2, maxIts): the parameter
\* checks, then result and max in front of the loop.
twinEnter(a, h2, g) ==
    [active |-> TRUE, hash |-> h2,
     pc |-> IF decodeCheck(a.n, a.k) = "none" THEN "loop" ELSE "exit",
     err |-> decodeCheck(a.n, a.k), it |-> 0,
     result |-> << >>, max |-> [first |-> 0, second |-> -1], f |-> g,
     assigned |-> FALSE, ret |-> "none"]

\* One iteration of the second run, when its loop test holds.
twinIter(a, t, idx) ==
    IF t.pc = "loop" /\ loopTest(t.it, twinArg(a, t).maxIts)
    THEN LET s == decodeStep(twinArg(a, t),
                             [result |-> t.result, max |-> t.max, f |-> t.f,
                              assigned |-> t.assigned], idx)
         IN  [t EXCEPT !.it = @ + 1, !.result = s.result, !.max = s.max, !.f = s.f,
                       !.assigned = s.assigned]
    ELSE t

\* The second run returns, when its loop test fails.
twinReturn(a, t) ==
    IF t.pc = "loop" /\ ~ loopTest(t.it, twinArg(a, t).maxIts)
    THEN [t EXCEPT !.pc = "done", !.ret = Flag(decodeReturn)]
    ELSE t

TwinCalls ==
    /\ pc = "idle"
    /\ \E n \in NArgs, k \in KArgs, maxIts \in MaxItsArgs, h \in Hashes,
          u \in UnlockingSets, g \in CallerPolys :
          /\ DecodeCall(n, k, maxIts, h, u, g)
          /\ \E h2 \in Hashes \ {h} :
                twin' = twinEnter([n |-> n, k |-> k, maxIts |-> maxIts], h2, g)
    /\ UNCHANGED permVars

TwinIters ==
    /\ pc = "loop"
    /\ \E idx \in Samples(arg.n, arg.k) :
          /\ DecodeIter(idx)
          /\ \E t \in {twinIter(arg, twin, idx)} : twin' = t
    /\ UNCHANGED permVars

TwinReturns ==
    /\ Return
    /\ twin' = twinReturn(arg, twin)
    /\ UNCHANGED permVars

NextTwin ==
    \/ TwinCalls
    \/ TwinIters
    \/ TwinReturns

\* Two runs of decode that differ in the hash only.
SpecTwin == InitVault /\ [][NextTwin]_vars

\* The Permutation program, with no fuzzy vault program beside it.
InitPermutations == InitPerm /\ VaultAtRest

SetDimensions ==
    /\ Idle
    /\ \E o \in Objs, n \in DimArgs : SetDimension(o, n)
    /\ UNCHANGED vaultVars

Assigns ==
    /\ Idle
    /\ \E t \in Objs, p \in Objs : Assign(t, p)
    /\ UNCHANGED vaultVars

Exchanges ==
    /\ Idle
    /\ \E o \in Objs, x0 \in IdxArgs, x1 \in IdxArgs : Exchange(o, x0, x1)
    /\ UNCHANGED vaultVars

Randoms ==
    /\ Idle
    /\ \E o \in Objs : Random(o)
    /\ UNCHANGED vaultVars

RandomIters ==
    /\ \E j \in 0 .. MaxDim - 1 : RandomIter(j)
    /\ UNCHANGED vaultVars

Swaps ==
    /\ Idle
    /\ \E p \in Objs, q \in Objs : Swap(p, q)
    /\ UNCHANGED vaultVars

Muls ==
    /\ Idle
    /\ \E r \in Objs, p \in Objs, q \in Objs : Mul(r, p, q)
    /\ UNCHANGED vaultVars

Invs ==
    /\ Idle
    /\ \E r \in Objs, p \in Objs : Inv(r, p)
    /\ UNCHANGED vaultVars

NextPermutations ==
    \/ SetDimensions
    \/ Assigns
    \/ Exchanges
    \/ Randoms
    \/ RandomIters
    \/ Swaps
    \/ Muls
    \/ Invs

SpecPerm == InitPermutations /\ [][NextPermutations]_vars

(***************************************************************************)
(* Properties of Permutation, checked under SpecPerm.                      *)
(***************************************************************************)

\* C1: whatever sequence of setDimension, exchange, random (any draws), mul,
\* inv, swap and assignment ran, every Permutation object of dimension n
\* holds each of the values 0..n-1 exactly once.
C1_Bijectivity == \A o \in Objs : IsBijection(perm[o])

\* random has run to its end on an object of dimension 3 or more and moved 0.
C1_AfterRandom ==
    /\ last.op = "random" /\ last.res = "ok"
    /\ perm[last.r].n >= 3
    /\ perm[last.r].data[0] # 0

\* What a step mul(R, P, Q) must do, R, P, Q named by the call it records.
MulPost ==
    LET r == last'.r
        p == last'.p
        q == last'.q
        n == perm[p].n
    IN  IF perm[p].n = perm[q].n
        THEN /\ last'.res = "ok" /\ ~ halted'
             /\ perm'[r].n = n
             /\ DOMAIN perm'[r].data = 0 .. n - 1
             /\ \A x \in 0 .. n - 1 :
                    perm'[r].data[x] = perm[p].data[perm[q].data[x]]
             /\ \A o \in Objs \ {r} : perm'[o] = perm[o]
        ELSE /\ last'.res = "exit" /\ halted'
             /\ perm' = perm

InvPost ==
    LET r == last'.r
        p == last'.p
        n == perm[p].n
    IN  /\ last'.res = "ok" /\ ~ halted'
        /\ perm'[r].n = n
        /\ DOMAIN perm'[r].data = 0 .. n - 1
        /\ \A x \in 0 .. n - 1 :
               /\ perm'[r].data[perm[p].data[x]] = x
               /\ perm[p].data[perm'[r].data[x]] = x
        /\ \A o \in Objs \ {r} : perm'[o] = perm[o]
        /\ \A s \in Objs :
             \A g \in GarbageOf(perm'[s].n, n), gc \in GarbageOf(0, n) :
                inv(perm', s, r, g, gc).h[s] = perm[p]

\* C9: after inv(R, P), R(P(x)) = x and P(R(x)) = x for all x, P taken
\* before the call, also when R is P and when R had another dimension; no
\* other object changes; and inverting the result again gives P back.
C9_InvInverts == [][last'.op = "inv" => InvPost]_vars

\* inv(R, R) has run on a permutation that is not its own inverse.
C9_AliasedInv ==
    /\ last.op = "inv" /\ last.res = "ok"
    /\ last.r = last.p
    /\ \E x \in 0 .. perm[last.r].n - 1 :
           perm[last.r].data[perm[last.r].data[x]] # x

\* What a step exchange(x0, x1) must do.
ExchangePost ==
    LET o  == last'.r
        x0 == last'.x0
        x1 == last'.x1
        n  == perm[o].n
    IN  IF x0 \in 0 .. n - 1 /\ x1 \in 0 .. n - 1
        THEN /\ last'.res = "ok"
             /\ perm'[o].n = n
             /\ DOMAIN perm'[o].data = 0 .. n - 1
             /\ perm'[o].data[x0] = perm[o].data[x1]
             /\ perm'[o].data[x1] = perm[o].data[x0]
             /\ \A x \in (0 .. n - 1) \ {x0, x1} : perm'[o].data[x] = perm[o].data[x]
             /\ \A s \in Objs \ {o} : perm'[s] = perm[s]
        ELSE /\ last'.res = "RangeError"
             /\ perm' = perm

DimensionsKept == \A o \in Objs : perm'[o].n = perm[o].n

\* setDimension(n) on o: n >= 0 leaves the identity of dimension n on o and
\* no other object changes; n < 0 ends the program and changes nothing.
SetDimensionPost ==
    LET o == last'.r
        n == last'.x0
    IN  IF n >= 0
        THEN /\ last'.res = "ok"
             /\ perm'[o] = [n |-> n, data |-> [x \in 0 .. n - 1 |-> x]]
             /\ \A s \in Objs \ {o} : perm'[s] = perm[s]
        ELSE /\ last'.res = "exit" /\ halted'
             /\ perm' = perm

\* C11 as the spec states it: setDimension leaves the identity of the new
\* dimension, and no step of exchange, random, mul, inv, swap or assignment
\* changes the dimension of any Permutation object.
C11_DimensionFixed ==
    [][/\ last'.op = "setDimension" => SetDimensionPost
       /\ last'.op \in {"exchange", "random", "mul", "inv", "swap", "assign"}
             => DimensionsKept]_vars

\* What each operation does to the dimensions: exchange and random keep
\* them all; swap(P, Q) exchanges those of P and Q; T = P, mul(R, P, Q) and
\* inv(R, P) give T or R the dimension of P (mul only when it does not end
\* the program) and keep every other one.
DimensionPost ==
    LET op == last'.op
        r  == last'.r
        p  == last'.p
        q  == last'.q
    IN  /\ op = "setDimension" => SetDimensionPost
        /\ op \in {"exchange", "random"} => DimensionsKept
        /\ op = "swap" =>
              /\ perm'[p].n = perm[q].n
              /\ perm'[q].n = perm[p].n
              /\ \A o \in Objs \ {p, q} : perm'[o].n = perm[o].n
        /\ (op \in {"assign", "inv"} \/ (op = "mul" /\ last'.res = "ok")) =>
              /\ perm'[r].n = perm[p].n
              /\ \A o \in Objs \ {r} : perm'[o].n = perm[o].n
        /\ (op = "mul" /\ last'.res # "ok") => DimensionsKept

\* C11 (amended): the dimension of a Permutation object changes only in
\* setDimension, which leaves the identity of the new dimension, and in the
\* operations that take the dimension of an operand: swap exchanges the
\* dimensions of its two arguments, and assignment, mul and inv give their
\* result the dimension of their operand P; exchange and random change no
\* dimension, and no operation changes the dimension of an object it was
\* not given as result or swap argument.
C11_DimensionFollowsOperand == [][DimensionPost]_vars

\* swap has exchanged two objects of different dimensions, both non-empty.
C11_SwappedDimensions ==
    /\ last.op = "swap"
    /\ perm[last.p].n # perm[last.q].n
    /\ perm[last.p].n >= 1 /\ perm[last.q].n >= 1

(***************************************************************************)
(* Properties of FuzzyVaultBrake, checked under SpecVault.                 *)
(***************************************************************************)

\* decode's arguments pass its parameter checks, as the contract asks.
ValidParameters == arg.n <= RAND_MAX /\ 1 <= arg.k /\ arg.k <= arg.n

\* The candidates decode may interpolate from the arguments it was given.
Candidates ==
    {candidate(arg.x, arg.y, arg.k, idx) : idx \in Samples(arg.n, arg.k)}

\* C2: when decode has returned (1 <= k <= n, maxIts >= 1), the constant
\* term of f has a count in the tally that is at least the count of every
\* constant term observed.
C2_MostRedundant ==
    (pc = "done" /\ arg.maxIts >= 1)
        => \A v \in DOMAIN result : result[PolyEval(f, 0)] >= result[v]

\* C3: decode (1 <= k <= n, maxIts >= 1) stays within maxIts iterations,
\* returns only after exactly maxIts of them, returns true, and f then is
\* the polynomial assigned with the leader: a candidate interpolated from k
\* sampled points, of degree below k, with the constant term max.first.
C3_DecodeReturnsLeader ==
    /\ (pc = "loop" /\ arg.maxIts >= 1) => it <= arg.maxIts
    /\ (pc = "done" /\ arg.maxIts >= 1) =>
          /\ ValidParameters
          /\ it = arg.maxIts
          /\ ret.decode = "true"
          /\ assigned
          /\ f \in Candidates
          /\ PolyDegree(f) < arg.k
          /\ PolyEval(f, 0) = max.first
          /\ max.second >= 1

\* decode has returned after three or more iterations that saw two or
\* more constant terms, one of them twice.
C3_Decoded ==
    /\ pc = "done" /\ api = "decode"
    /\ arg.maxIts >= 3
    /\ Cardinality(DOMAIN result) >= 2
    /\ max.second >= 2

\* C4: decode with maxIts = 0 and valid n, k does not return success and
\* does not hand back a polynomial it never assigned.
C4_ZeroBudgetRejected ==
    (arg.called /\ arg.maxIts = 0 /\ ValidParameters)
        => /\ pc # "done"
           /\ ret.decode # "true"

\* C5: decode with n <= 0, k <= 0, k > n or n > RAND_MAX ends in the fatal
\* parameter error before any sampling or interpolation, returns nothing
\* and leaves f as it was.
C5_BadParametersAreFatal ==
    (arg.called /\ (arg.n <= 0 \/ arg.k <= 0 \/ arg.k > arg.n \/ arg.n > RAND_MAX))
        => /\ pc = "exit" /\ err = "ParameterError"
           /\ it = 0 /\ result = << >> /\ max.second = -1
           /\ ret = NoRet
           /\ f = fIn /\ ~ assigned

\* decode was called with more coefficients than points and has exited.
C5_TooFewPoints ==
    /\ pc = "exit" /\ arg.called
    /\ arg.n >= 1 /\ arg.k > arg.n

\* The three scenarios of a vault open must reject, each with everything
\* else in order, and the error of each.
Rejected(v) ==
    IF ~ v.enrolled /\ ~ v.encrypted /\ v.slowDownFactor = 1 THEN "NotEnrolled"
    ELSE IF v.enrolled /\ v.encrypted /\ v.slowDownFactor = 1 THEN "StillEncrypted"
    ELSE IF v.enrolled /\ ~ v.encrypted /\ v.slowDownFactor # 1 THEN "UnsupportedSlowDown"
    ELSE "none"

\* C6: open (called directly or by getf0) on a vault that is not enrolled,
\* or still encrypted, or of a slow-down factor other than 1, the query
\* yielding at least k elements, ends in that error; it does not unpack the
\* vault polynomial, does not call decode and does not write f.
C6_OpenGuards ==
    (api \in {"open", "getf0"} /\ Rejected(vault) # "none"
        /\ Len(quantized) >= vault.k)
        => /\ pc = "exit" /\ err = Rejected(vault)
           /\ ~ unpacked
           /\ ~ arg.called /\ it = 0 /\ result = << >>
           /\ f = fIn /\ ~ assigned
           /\ ret = NoRet

\* open was called on an enrolled, decrypted vault of slow-down factor 2,
\* with a query of at least k elements.
C6_SlowDownRejected ==
    /\ api = "open" /\ pc = "exit"
    /\ vault.enrolled /\ ~ vault.encrypted /\ vault.slowDownFactor = 2
    /\ Len(quantized) >= vault.k

\* The reserved value of getf0: all 32 bits set.
Sentinel == <<Half - 1, Half - 1>>

\* C7: getf0 returns the sentinel exactly if open returned false; when open
\* returned true it returns f(0) of the recovered polynomial, which is not
\* the sentinel.
C7_SentinelIffOpenFailed ==
    (api = "getf0" /\ pc = "done")
        => /\ (ret.getf0 = Sentinel) <=> (ret.open = "false")
           /\ ret.open = "true" =>
                 /\ ret.getf0 = <<0, PolyEval(f, 0)>>
                 /\ ret.getf0 # Sentinel

\* getf0 has returned the constant term of a polynomial decode assigned.
C7_Getf0Returned ==
    /\ api = "getf0" /\ pc = "done"
    /\ ret.open = "true"
    /\ assigned /\ PolyEval(f, 0) # 0

\* The second run is where the first is, with the same locals, the same
\* output polynomial and the same return value.
TwinAgrees ==
    twin.active =>
        /\ twin.pc = pc /\ twin.err = err /\ twin.it = it
        /\ twin.result = result /\ twin.max = max
        /\ twin.f = f /\ twin.assigned = assigned
        /\ twin.ret = ret.decode

\* A step of decode leaves the hash it was given and the vault, its stored
\* hash included, as they are.
HashKept ==
    /\ arg.called => arg'.hash = arg.hash
    /\ twin.active => twin'.hash = twin.hash
    /\ pc = "loop" => vault' = vault

\* C12: two runs of decode on the same f, x, y, n, k, maxIts and the same
\* sampled indices, with two different hashes (null or not), are in the
\* same state after every step: they end alike (return or fatal error),
\* return the same value and leave the same output polynomial; and no step
\* of decode changes the hash argument or the vault's stored hash.
C12_HashIgnored == [][HashKept /\ TwinAgrees']_vars

\* Both runs have returned after three or more iterations that saw two or
\* more constant terms, one run with the null hash and one with a hash.
C12_BothReturned ==
    /\ twin.active /\ pc = "done" /\ twin.pc = "done"
    /\ arg.hash = "null" /\ twin.hash = "h1"
    /\ it >= 3 /\ assigned
    /\ Cardinality(DOMAIN result) >= 2

\* C13: whatever int maxIts decode was called with, zero and negative ones
\* included, it makes at most max(maxIts, 0) iterations: the loop counter,
\* a uint64_t compared with maxIts, never passes that number.
C13_BudgetBoundsWork ==
    arg.called => it <= (IF arg.maxIts > 0 THEN arg.maxIts ELSE 0)

\* open or getf0 runs on a vault that passes open's checks of the vault:
\* enrolled, decrypted, slow-down factor 1 (and the budget D >= 1).
OpenOnReadyVault ==
    /\ api \in {"open", "getf0"}
    /\ vault.enrolled /\ ~ vault.encrypted /\ vault.slowDownFactor = 1
    /\ vault.D >= 1

\* open is inside decode's loop or has returned true.
OpenSucceeds ==
    /\ pc \in {"loop", "done"}
    /\ pc = "done" => ret.open = "true"

\* open never returned false, and getf0 never returned the sentinel.
NoFailureFlag ==
    /\ ret.open # "false"
    /\ (api = "getf0" /\ pc = "done") => ret.getf0 # Sentinel

\* C14 as the spec states it: open never returns false; on an enrolled,
\* decrypted vault of slow-down factor 1 it returns true whenever quantize
\* yields t >= k elements and ends in decode's fatal parameter error
\* whenever it yields t < k elements, t = 0 included; getf0 never returns
\* the sentinel.
C14_OpenNeverFails ==
    /\ NoFailureFlag
    /\ (OpenOnReadyVault /\ Len(quantized) >= vault.k) => OpenSucceeds
    /\ (OpenOnReadyVault /\ Len(quantized) < vault.k) =>
          /\ pc = "exit" /\ err = "ParameterError" /\ arg.called

\* C14 (amended): open never returns false and getf0 never returns the
\* sentinel; on an enrolled, decrypted vault of slow-down factor 1 open
\* returns true whenever quantize yields t elements with k <= t <= RAND_MAX,
\* and ends in a fatal error otherwise: decode's parameter error for t < k
\* and for t > RAND_MAX, or, for t = 0 where malloc(0) returns a null
\* pointer, open's own allocation error, before decode is called.
C14_OpenFatalOrTrue ==
    /\ NoFailureFlag
    /\ (OpenOnReadyVault /\ Len(quantized) >= vault.k /\ Len(quantized) <= RAND_MAX)
          => OpenSucceeds
    /\ (OpenOnReadyVault /\ (Len(quantized) < vault.k \/ Len(quantized) > RAND_MAX)) =>
          /\ pc = "exit"
          /\ \/ err = "ParameterError" /\ arg.called
             \/ Len(quantized) = 0 /\ err = "AllocationError" /\ ~ arg.called

\* open has ended in the allocation error on a ready vault and an empty
\* query.
C14_EmptyQueryAllocation ==
    /\ api = "open" /\ OpenOnReadyVault
    /\ Len(quantized) = 0
    /\ pc = "exit" /\ err = "AllocationError"

=============================================================================
